---- MODULE Spec2Model ----
(***************************************************************************)
(* Model of the query execution core of dataclaw:                          *)
(*   packages/agent-core/src/security.ts   isMutatingSql, isMutatingPython *)
(*   packages/agent-core/src/executor.ts   Executor.execute                *)
(*                                                                         *)
(* Strings are sequences of atoms.  Commands are sequences of single       *)
(* characters, so that the classifiers and the escaping done by            *)
(* generateFallbackPython work on them as the code does.  Literal text of  *)
(* the program (prefixes, fixed lines of the fallback script) and the      *)
(* collaborators' messages are atoms of several characters.                *)
(***************************************************************************)
EXTENDS Integers, Sequences, FiniteSets, TLC

(***************************************************************************)
(* Characters and string helpers (JavaScript String methods).              *)
(***************************************************************************)
WordChars ==
    {"a", "b", "c", "d", "e", "f", "g", "h", "i", "j", "k", "l", "m",
     "n", "o", "p", "q", "r", "s", "t", "u", "v", "w", "x", "y", "z",
     "A", "B", "C", "D", "E", "F", "G", "H", "I", "J", "K", "L", "M",
     "N", "O", "P", "Q", "R", "S", "T", "U", "V", "W", "X", "Y", "Z",
     "0", "1", "2", "3", "4", "5", "6", "7", "8", "9", "_"}

UpperToLower ==
    [A |-> "a", B |-> "b", C |-> "c", D |-> "d", E |-> "e", F |-> "f",
     G |-> "g", H |-> "h", I |-> "i", J |-> "j", K |-> "k", L |-> "l",
     M |-> "m", N |-> "n", O |-> "o", P |-> "p", Q |-> "q", R |-> "r",
     S |-> "s", T |-> "t", U |-> "u", V |-> "v", W |-> "w", X |-> "x",
     Y |-> "y", Z |-> "z"]

\* \s of a JavaScript regular expression, for the characters the model uses
IsWhitespace(c) == c \in {" ", "\n", "\t", "\r"}

\* a line terminator: what "." of a regular expression does not match
IsLineTerminator(c) == c \in {"\n", "\r"}

\* String.prototype.toLowerCase
ToLowerCase(s) ==
    [i \in 1..Len(s) |-> IF s[i] \in DOMAIN UpperToLower THEN UpperToLower[s[i]] ELSE s[i]]

\* s.replace(/\s+/g, " "): every maximal run of whitespace becomes one space
RECURSIVE CollapseWhitespace(_)
CollapseWhitespace(s) ==
    IF s = << >> THEN << >>
    ELSE IF IsWhitespace(Head(s))
         THEN IF Len(s) > 1 /\ IsWhitespace(s[2])
              THEN CollapseWhitespace(Tail(s))
              ELSE <<" ">> \o CollapseWhitespace(Tail(s))
         ELSE <<Head(s)>> \o CollapseWhitespace(Tail(s))

RECURSIVE TrimStart(_)
TrimStart(s) ==
    IF s # << >> /\ IsWhitespace(Head(s)) THEN TrimStart(Tail(s)) ELSE s

RECURSIVE TrimEnd(_)
TrimEnd(s) ==
    IF s # << >> /\ IsWhitespace(s[Len(s)]) THEN TrimEnd(SubSeq(s, 1, Len(s) - 1)) ELSE s

\* String.prototype.trim
Trim(s) == TrimEnd(TrimStart(s))

\* the text of s at position i is pat
MatchesAt(s, i, pat) ==
    /\ i >= 1
    /\ i + Len(pat) - 1 <= Len(s)
    /\ SubSeq(s, i, i + Len(pat) - 1) = pat

\* String.prototype.startsWith
StartsWith(s, pat) == MatchesAt(s, 1, pat)

\* String.prototype.includes
Includes(s, pat) == \E i \in 1..(Len(s) + 1) : MatchesAt(s, i, pat)

\* s.replace(/pat/g, by) for a literal pattern: leftmost matches, not overlapping
RECURSIVE ReplaceAll(_, _, _)
ReplaceAll(s, pat, by) ==
    IF s = << >> THEN << >>
    ELSE IF MatchesAt(s, 1, pat)
         THEN by \o ReplaceAll(SubSeq(s, Len(pat) + 1, Len(s)), pat, by)
         ELSE <<Head(s)>> \o ReplaceAll(Tail(s), pat, by)

(***************************************************************************)
(* security.ts: the mutation classifier.                                   *)
(***************************************************************************)
SQL_MUTATION_KEYWORDS ==
    << <<"i", "n", "s", "e", "r", "t">>,
       <<"u", "p", "d", "a", "t", "e">>,
       <<"d", "e", "l", "e", "t", "e">>,
       <<"d", "r", "o", "p">>,
       <<"a", "l", "t", "e", "r">>,
       <<"c", "r", "e", "a", "t", "e">>,
       <<"t", "r", "u", "n", "c", "a", "t", "e">>,
       <<"r", "e", "p", "l", "a", "c", "e">>,
       <<"m", "e", "r", "g", "e">>,
       <<"c", "o", "p", "y">> >>

isMutatingSql(sql) ==
    LET normalized == Trim(CollapseWhitespace(ToLowerCase(sql)))
    IN  \E k \in 1..Len(SQL_MUTATION_KEYWORDS) :
            LET keyword == SQL_MUTATION_KEYWORDS[k]
            IN  \/ StartsWith(normalized, keyword)
                \/ Includes(normalized, <<" ">> \o keyword \o <<" ">>)

\* \b before position i, where code[i] is a word character
WordBoundaryBefore(code, i) == i = 1 \/ code[i - 1] \notin WordChars

\* /\b<literal>/ for a literal that starts with a word character
MatchesWordLiteral(code, literal) ==
    \E i \in 1..Len(code) : WordBoundaryBefore(code, i) /\ MatchesAt(code, i, literal)

\* /\bopen\(.+?,\s*["']<mode>/
MatchesOpenMode(code, mode) ==
    \E i \in 1..Len(code) :
        /\ WordBoundaryBefore(code, i)
        /\ MatchesAt(code, i, <<"o", "p", "e", "n", "(">>)
        /\ \E j \in (i + 6)..Len(code) :
              /\ \A k \in (i + 5)..(j - 1) : ~IsLineTerminator(code[k])
              /\ code[j] = ","
              /\ \E q \in (j + 1)..Len(code) :
                    /\ \A k \in (j + 1)..(q - 1) : IsWhitespace(code[k])
                    /\ code[q] \in {"\"", "'"}
                    /\ q + 1 <= Len(code)
                    /\ code[q + 1] = mode

PYTHON_MUTATION_LITERALS ==
    { <<"o", "s", ".", "r", "e", "m", "o", "v", "e", "(">>,
      <<"o", "s", ".", "r", "e", "n", "a", "m", "e", "(">>,
      <<"o", "s", ".", "s", "y", "s", "t", "e", "m", "(">>,
      <<"s", "u", "b", "p", "r", "o", "c", "e", "s", "s", ".">>,
      <<"r", "e", "q", "u", "e", "s", "t", "s", ".">> }

isMutatingPython(code) ==
    \/ MatchesOpenMode(code, "w")
    \/ MatchesOpenMode(code, "a")
    \/ \E literal \in PYTHON_MUTATION_LITERALS : MatchesWordLiteral(code, literal)

(***************************************************************************)
(* security.ts, lines 33-116: Planner.createPlan and heuristicPlan.  The   *)
(* completion is the plan the model's answer parses to.                    *)
(***************************************************************************)
PromptPlot ==
    <<"P", "l", "o", "t", " ", "s", "a", "l", "e", "s">>

PromptCount ==
    <<"c", "o", "u", "n", "t", " ", "r", "o", "w", "s">>

Prompts == {PromptPlot, PromptCount}

\* line 96
LikelyPython ==
    { <<"p", "l", "o", "t">>,
      <<"c", "h", "a", "r", "t">>,
      <<"v", "i", "s", "u", "a", "l">>,
      <<"c", "o", "m", "p", "l", "e", "x">>,
      <<"c", "l", "e", "a", "n">> }

HeuristicPythonCommand ==
    <<"#", " ", "W", "r", "i", "t", "e", " ", "p", "a", "n", "d", "a", "s",
      "-", "c", "o", "m", "p", "a", "t", "i", "b", "l", "e", " ", "c", "o",
      "d", "e", " ", "t", "h", "a", "t", " ", "r", "e", "a", "d", "s", " ",
      "f", "r", "o", "m", " ", "D", "u", "c", "k", "D", "B", " ", "a", "n",
      "d", " ", "r", "e", "t", "u", "r", "n", "s", " ", "a", " ", "c", "o",
      "n", "c", "i", "s", "e", " ", "t", "e", "x", "t", "u", "a", "l", " ",
      "a", "n", "s", "w", "e", "r">>

HeuristicSqlCommand ==
    <<"S", "E", "L", "E", "C", "T", " ", "*", " ", "F", "R", "O", "M", " ",
      "m", "a", "i", "n", "_", "t", "a", "b", "l", "e", " ", "L", "I", "M",
      "I", "T", " ", "5", "0", ";">>

\* lines 94-116
heuristicPlan(prompt) ==
    IF \E token \in LikelyPython : Includes(ToLowerCase(prompt), token)
    THEN [language |-> "python", command |-> HeuristicPythonCommand,
          requiresApproval |-> FALSE,
          explanationSeed |->
              <<"Python fallback selected because the request looks analytical.">>]
    ELSE [language |-> "sql", command |-> HeuristicSqlCommand,
          requiresApproval |-> FALSE,
          explanationSeed |-> <<"Default SQL-first planning path.">>]

\* lines 65-91
createPlan(isConfigured, completion, prompt) ==
    IF ~isConfigured THEN heuristicPlan(prompt)
    ELSE IF /\ completion.language = "sql"
            /\ completion.requiresApproval = FALSE
            /\ isMutatingSql(completion.command)
         THEN [completion EXCEPT !.requiresApproval = TRUE]
         ELSE completion

(***************************************************************************)
(* Values thrown and returned by the collaborators of Executor.execute.    *)
(* A thrown value is an Error object (with a message) or a plain string.   *)
(***************************************************************************)
NewError(m) == [isError |-> TRUE, message |-> m, value |-> << >>]

ThrownString(v) == [isError |-> FALSE, message |-> << >>, value |-> v]

NoError == [isError |-> FALSE, message |-> << >>, value |-> << >>]

\* error instanceof Error ? error.message : String(error)
MessageOf(error) == IF error.isError THEN error.message ELSE error.value

Resolved(v) == [ok |-> TRUE, value |-> v, error |-> NoError]

Rejected(e) == [ok |-> FALSE, value |-> << >>, error |-> e]

\* messages of the collaborators; a quote is an atom of its own
ConnectionErrorText ==
    <<"Connection Error: Connection was never established or has been closed already.">>

CatalogErrorText == <<"Catalog Error: Table ", "'", "t", "'", " does not exist">>

TablesUndefinedText == <<"NameError: name ", "'", "tables", "'", " is not defined">>

ModuleNotFoundText == <<"ModuleNotFoundError: No module named ", "'", "duckdb", "'">>

MemoryWriteErrorText == <<"EACCES: permission denied, open memory file">>

AuditWriteErrorText == <<"ENOSPC: no space left on device, open audit.jsonl">>

SqlOutcomes ==
    { Resolved(<<"ok">>),
      Rejected(NewError(ConnectionErrorText)),
      Rejected(ThrownString(CatalogErrorText)) }

PythonOutcomes ==
    { Resolved(<<"python ok">>),
      Rejected(NewError(TablesUndefinedText)),
      Rejected(NewError(ModuleNotFoundText)) }

SaveLearningOutcomes ==
    { Resolved(<< >>), Rejected(NewError(MemoryWriteErrorText)) }

AppendAuditOutcomes ==
    { Resolved(<< >>), Rejected(NewError(AuditWriteErrorText)) }

(***************************************************************************)
(* Inputs of execute(): the ExecutorContext.                               *)
(***************************************************************************)
SqlSelect == <<"S", "E", "L", "E", "C", "T", " ", "1">>

SqlDrop == <<"D", "R", "O", "P", " ", "T", "A", "B", "L", "E", " ", "t">>

SqlDelete ==
    <<"w", "i", "t", "h", " ", "x", "\n", " ", " ", "d", "e", "l", "e", "t", "e", " ", " ", "y">>

SqlQuoted == <<"s", "e", "l", "e", "c", "t", " ", "'", "'", "'", "a", "'">>

SqlTrailing == <<"s", "e", "l", "e", "c", "t", " ", "1", ";", "d", "r", "o", "p">>

PyPrint ==
    <<"p", "r", "i", "n", "t", "(", "t", "a", "b", "l", "e", "s", "[", "0", "]", ")">>

PyRemove == <<"o", "s", ".", "r", "e", "m", "o", "v", "e", "(", "f", ")">>

PyOpenWrite == <<"o", "p", "e", "n", "(", "f", ",", " ", "'", "w", "'", ")">>

SqlCommands == {SqlSelect, SqlDrop, SqlDelete, SqlQuoted, SqlTrailing}

PythonCommands == {PyPrint, PyRemove, PyOpenWrite}

\* the number of runPython calls whose outcome a context fixes
MaxPyCalls == 2

ExplanationSeed == <<"Base explanation">>

Plans ==
    { [language |-> l, command |-> c, requiresApproval |-> r,
       explanationSeed |-> ExplanationSeed] :
        l \in {"sql", "python"}, c \in SqlCommands \cup PythonCommands, r \in BOOLEAN }

PlannedPlans ==
    { p \in Plans : (p.language = "sql") <=> (p.command \in SqlCommands) }

DatasetIds == {"dataset_a", "dataset_b"}

SourceTableLists == { << >>, <<"table_a">> }

\* runPython is a callback of the context: pyScript[k] is the outcome of its
\* k-th call.  The other collaborators answer when they are called.
Contexts ==
    { [datasetId |-> d, yolo |-> y, plan |-> p, sourceTables |-> t,
       memoryHintsUsed |-> << >>, pyScript |-> s] :
        d \in DatasetIds, y \in BOOLEAN, p \in PlannedPlans,
        t \in SourceTableLists, s \in [1..MaxPyCalls -> PythonOutcomes] }

NoContext ==
    [datasetId |-> "", yolo |-> FALSE,
     plan |-> [language |-> "sql", command |-> << >>, requiresApproval |-> FALSE,
               explanationSeed |-> << >>],
     sourceTables |-> << >>, memoryHintsUsed |-> << >>,
     pyScript |-> [k \in 1..MaxPyCalls |-> Resolved(<< >>)]]

(***************************************************************************)
(* executor.ts: Executor.execute.                                          *)
(*                                                                         *)
(* One action per collaborator call of execute(): the action is the call,  *)
(* its outcome, and the code that runs from there to the next call (or to  *)
(* the return or throw).  calls is the log of the collaborator calls of    *)
(* the current execute(), audits the records appendAudit has written.      *)
(* The timestamp of an audit record is the wall clock and is left out.     *)
(***************************************************************************)
VARIABLES
    pc,              \* where execute() is: "idle", the next call, or "done"
    context,         \* the ExecutorContext of the call
    mutating,        \* const mutating
    approved,        \* let approved
    message,         \* const message (outer catch)
    fallbackCode,    \* const fallbackCode
    fallbackResult,  \* const fallbackResult
    primaryResult,   \* const result
    caught,          \* the value bound by catch (error)
    calls,           \* collaborator calls made so far, in order
    audits,          \* audit records written by appendAudit
    outcome,         \* how the call ended: returned value or raised error
    earlier          \* what earlier execute() calls of this process were granted

locals == <<mutating, approved, message, fallbackCode, fallbackResult, primaryResult, caught>>

(***************************************************************************)
(* The memory files on disk (src/unnamed/part_014, MarkdownMemoryService)  *)
(* and the invocations that use them.  execute() reaches them only through *)
(* its saveLearning collaborator, so its actions leave them alone.         *)
(***************************************************************************)
VARIABLES
    files,           \* the memory files that exist: path -> text
    today,           \* the day the wall clock shows
    returned,        \* the last completed call of the memory service
    curatedBefore,   \* per scope: what curate gave since the last saveLearning
    saved,           \* what the completed saveLearning calls were called with
    served,          \* how many calls the service has served one at a time
    saver            \* per invocation: where its saveLearning is

elsewhere == <<files, today, returned, curatedBefore, saved, served, saver>>

\* the variables of execute()
executing ==
    <<pc, context, mutating, approved, message, fallbackCode, fallbackResult,
      primaryResult, caught, calls, audits, outcome, earlier>>

vars == <<executing, elsewhere>>

\* datasetId?: string left undefined (the global scope)
NoDataset == ""

Scopes == DatasetIds \cup {NoDataset}

\* independent invocations (processes) that share the files
Invocations == {"ask_1", "ask_2"}

NoFiles == [path \in {} |-> << >>]

NoInput ==
    [datasetId |-> NoDataset, symptom |-> << >>, rootCause |-> << >>, fix |-> << >>,
     command |-> << >>, language |-> "sql"]

NoCall ==
    [op |-> "none", arg |-> << >>, value |-> << >>, changed |-> FALSE,
     repeated |-> FALSE, previous |-> [content |-> << >>, value |-> << >>]]

NotCurated == [known |-> FALSE, content |-> << >>, value |-> << >>]

SaverIdle == [pc |-> "idle", input |-> NoInput, dailyFile |-> << >>, block |-> << >>]

\* no memory file written yet, no call made
StoreInit ==
    /\ files = NoFiles
    /\ today = 1
    /\ returned = NoCall
    /\ curatedBefore = [scope \in Scopes |-> NotCurated]
    /\ saved = {}
    /\ served = 0
    /\ saver = [p \in Invocations |-> SaverIdle]

NoResult ==
    [plan |-> NoContext.plan, command |-> << >>, result |-> << >>,
     explanation |-> << >>, sourceTables |-> << >>, learningsUsed |-> << >>,
     fallbackUsed |-> FALSE]

Running == [kind |-> "running", result |-> NoResult, error |-> NoError]

Returned(r) == [kind |-> "returned", result |-> r, error |-> NoError]

Raised(e) == [kind |-> "raised", result |-> NoResult, error |-> e]

\* a collaborator call in the log: what was called, with what, and how it ended
Call(fn, arg, o) ==
    [fn |-> fn, arg |-> arg, ok |-> o.ok, value |-> o.value, error |-> o.error]

\* line 26
Classify(plan) ==
    IF plan.language = "sql" THEN isMutatingSql(plan.command)
    ELSE isMutatingPython(plan.command)

NeedsApprovalInverted(isMutating, yolo) == isMutating /\ yolo

NeedsApprovalRemembered(isMutating, yolo) == isMutating /\ ~yolo /\ earlier = {}

\* line 29: the approval gate is consulted
NeedsApproval(isMutating, yolo) == isMutating /\ ~yolo

ApprovedOnlyIfNotMutating(isMutating, yolo) == ~isMutating

\* lines 28 and 56-58: approved when the gate is not consulted
ApprovedWithoutGate(isMutating, yolo) ==
    IF isMutating /\ yolo THEN TRUE ELSE ~isMutating

\* a ToolExecutionAudit; hasError is FALSE when the error field is absent
AuditEntry(ctx, language, isMutating, isApproved, yolo, success, hasError, error) ==
    [datasetId |-> ctx.datasetId, command |-> ctx.plan.command, language |-> language,
     mutating |-> isMutating, approved |-> isApproved, yolo |-> yolo,
     success |-> success, hasError |-> hasError, error |-> error]

RejectedAuditError == <<"Command was rejected by user approval gate.">>

\* lines 32-42
RejectedAudit(ctx, isMutating, isApproved) ==
    AuditEntry(ctx, ctx.plan.language, isMutating, isApproved, FALSE, FALSE, TRUE,
               RejectedAuditError)

CanceledText == <<"Execution canceled: command was rejected by approval gate.">>

\* lines 44-52
CanceledResult(ctx) ==
    [plan |-> ctx.plan, command |-> ctx.plan.command, result |-> CanceledText,
     explanation |-> <<"A mutating command requires explicit approval.">>,
     sourceTables |-> ctx.sourceTables, learningsUsed |-> ctx.memoryHintsUsed,
     fallbackUsed |-> FALSE]

\* lines 66-75
PrimarySuccessAudit(ctx, isMutating, isApproved) ==
    AuditEntry(ctx, ctx.plan.language, isMutating, isApproved, ctx.yolo, TRUE, FALSE, << >>)

\* lines 77-85
PrimaryResult(ctx, result) ==
    [plan |-> ctx.plan, command |-> ctx.plan.command, result |-> result,
     explanation |-> ctx.plan.explanationSeed,
     sourceTables |-> ctx.sourceTables, learningsUsed |-> ctx.memoryHintsUsed,
     fallbackUsed |-> FALSE]

\* lines 155-166
generateFallbackPython(sql, sqlError) ==
    <<"import duckdb", "\n",
      "con = duckdb.connect(database=DB_PATH, read_only=False)", "\n",
      "query = ", "'", "'", "'">>
    \o ReplaceAll(sql, <<"'", "'", "'">>, <<"\\", "'", "\\", "'", "\\", "'">>)
    \o <<"'", "'", "'", "\n",
         "try:", "\n",
         "    result = con.execute(query).fetchdf()", "\n",
         "    print(result.head(50).to_string(index=False))", "\n",
         "except Exception as err:", "\n",
         "    raise RuntimeError(", "'", "Original SQL failed: ">>
    \o ReplaceAll(sqlError, <<"'">>, <<"\\", "'">>)
    \o <<"'", ") from err">>

SqlFailedPrefix == <<"SQL failed: ">>

\* lines 93-100: the argument of saveLearning
FallbackLearning(ctx, msg, code) ==
    [datasetId |-> ctx.datasetId,
     symptom |-> SqlFailedPrefix \o msg,
     rootCause |-> <<"Original SQL could not execute on current schema or engine constraints.">>,
     fix |-> <<"Used Python fallback to answer the query.">>,
     command |-> code,
     language |-> "python"]

\* lines 102-111
FallbackSuccessAudit(ctx, isMutating, isApproved) ==
    AuditEntry(ctx, "sql", isMutating, isApproved, ctx.yolo, TRUE, FALSE, << >>)

FallbackNote == <<" SQL failed, so Python fallback was used.">>

\* lines 113-121
FallbackResult(ctx, result) ==
    [plan |-> ctx.plan, command |-> ctx.plan.command, result |-> result,
     explanation |-> ctx.plan.explanationSeed \o FallbackNote,
     sourceTables |-> ctx.sourceTables, learningsUsed |-> ctx.memoryHintsUsed,
     fallbackUsed |-> TRUE]

\* line 133
BothFailedAuditError(msg, fallbackMessage) ==
    <<"SQL failed (">> \o msg \o <<"); fallback failed (">> \o fallbackMessage \o <<")">>

\* lines 124-134
BothFailedAudit(ctx, isMutating, isApproved, msg, fallbackMessage) ==
    AuditEntry(ctx, "sql", isMutating, isApproved, ctx.yolo, FALSE, TRUE,
               BothFailedAuditError(msg, fallbackMessage))

\* line 135
BothFailedError(msg, fallbackMessage) ==
    NewError(SqlFailedPrefix \o msg \o <<". Python fallback also failed: ">> \o fallbackMessage)

\* a final record that reports the failed call as a success
FailedAuditAsSuccess(ctx, isMutating, isApproved, msg) ==
    AuditEntry(ctx, ctx.plan.language, isMutating, isApproved, ctx.yolo, TRUE, FALSE, msg)

\* lines 139-149
FailedAudit(ctx, isMutating, isApproved, msg) ==
    AuditEntry(ctx, ctx.plan.language, isMutating, isApproved, ctx.yolo, FALSE, TRUE, msg)

\* the number of runPython calls made so far in this execute()
PythonCalls == Cardinality({i \in 1..Len(calls) : calls[i].fn = "runPython"})

\* the outcome the context's runPython gives to its next call
\* (a call beyond the last one the context fixes is answered like the last)
NextPythonOutcome ==
    context.pyScript[IF PythonCalls + 1 <= MaxPyCalls THEN PythonCalls + 1 ELSE MaxPyCalls]

\* no execute() in progress
NotExecuting ==
    /\ pc = "idle"
    /\ context = NoContext
    /\ mutating = FALSE
    /\ approved = FALSE
    /\ message = << >>
    /\ fallbackCode = << >>
    /\ fallbackResult = << >>
    /\ primaryResult = << >>
    /\ caught = NoError
    /\ calls = << >>
    /\ audits = << >>
    /\ outcome = Running
    /\ earlier = {}

Init == NotExecuting /\ StoreInit

\* lines 25-29 and 56-58: execute(context) up to its first collaborator call
Execute(ctx) ==
    /\ pc = "idle"
    /\ UNCHANGED <<earlier, elsewhere>>
    /\ context' = ctx
    /\ mutating' = Classify(ctx.plan)
    /\ IF NeedsApproval(Classify(ctx.plan), ctx.yolo)
       THEN /\ approved' = ~Classify(ctx.plan)
            /\ pc' = "approveCommand"
       ELSE /\ approved' = ApprovedWithoutGate(Classify(ctx.plan), ctx.yolo)
            /\ pc' = "runPrimary"
    /\ UNCHANGED <<message, fallbackCode, fallbackResult, primaryResult, caught,
                   calls, audits, outcome>>

\* lines 30-31: await context.approveCommand(command, language)
\* (the gate answers yes or no: ApprovalService.ask returns a boolean)
ApproveCommand(answer) ==
    /\ pc = "approveCommand"
    /\ UNCHANGED <<earlier, elsewhere>>
    /\ calls' = Append(calls, Call("approveCommand",
                                   <<context.plan.command, context.plan.language>>,
                                   Resolved(answer)))
    /\ approved' = answer
    /\ pc' = IF ~answer THEN "appendAuditRejected" ELSE "runPrimary"
    /\ UNCHANGED <<context, mutating, message, fallbackCode, fallbackResult,
                   primaryResult, caught, audits, outcome>>

\* context.appendAudit(entry) with outcome o: the record is written unless it raises
AppendAudit(entry, o) ==
    /\ calls' = Append(calls, Call("appendAudit", entry, o))
    /\ audits' = IF o.ok THEN Append(audits, entry) ELSE audits

CatchPrimaryRetrying(error) ==
    /\ caught' = error
    /\ message' = MessageOf(error)
    /\ IF context.plan.language = "sql"
       THEN /\ fallbackCode' = generateFallbackPython(context.plan.command, MessageOf(error))
            /\ pc' = "runFallback"
       ELSE /\ fallbackCode' = fallbackCode
            /\ pc' = "runPrimary"

\* lines 86-89 and 91: catch (error) of the outer try
CatchPrimary(error) ==
    /\ caught' = error
    /\ message' = MessageOf(error)
    /\ IF context.plan.language = "sql"
       THEN /\ fallbackCode' = generateFallbackPython(context.plan.command, MessageOf(error))
            /\ pc' = "runFallback"
       ELSE /\ fallbackCode' = fallbackCode
            /\ pc' = "appendAuditFailed"

\* lines 32-53: the audit and the result of a rejected command
AppendAuditRejected(o) ==
    /\ pc = "appendAuditRejected"
    /\ UNCHANGED <<earlier, elsewhere>>
    /\ AppendAudit(RejectedAudit(context, mutating, approved), o)
    /\ outcome' = IF o.ok THEN Returned(CanceledResult(context)) ELSE Raised(o.error)
    /\ pc' = "done"
    /\ UNCHANGED <<context, locals>>

\* lines 61-64: the primary execution of the plan's command
RunPrimary(o) ==
    /\ pc = "runPrimary"
    /\ UNCHANGED <<earlier, elsewhere>>
    /\ IF context.plan.language = "sql"
       THEN o \in SqlOutcomes
       ELSE o = NextPythonOutcome
    /\ calls' = Append(calls, Call(IF context.plan.language = "sql" THEN "runSql" ELSE "runPython",
                                   context.plan.command, o))
    /\ IF o.ok
       THEN /\ primaryResult' = o.value
            /\ pc' = "appendAuditPrimary"
            /\ UNCHANGED <<caught, message, fallbackCode>>
       ELSE /\ CatchPrimary(o.error)
            /\ UNCHANGED primaryResult
    /\ UNCHANGED <<context, mutating, approved, fallbackResult, audits, outcome>>

\* lines 66-85: the audit and the result of a successful primary execution;
\* the call is inside the outer try, so its error is caught at line 86
AppendAuditPrimary(o) ==
    /\ pc = "appendAuditPrimary"
    /\ UNCHANGED <<earlier, elsewhere>>
    /\ AppendAudit(PrimarySuccessAudit(context, mutating, approved), o)
    /\ IF o.ok
       THEN /\ outcome' = Returned(PrimaryResult(context, primaryResult))
            /\ pc' = "done"
            /\ UNCHANGED <<caught, message, fallbackCode>>
       ELSE /\ CatchPrimary(o.error)
            /\ UNCHANGED outcome
    /\ UNCHANGED <<context, mutating, approved, fallbackResult, primaryResult>>

\* line 123: catch (fallbackError) of the inner try
CatchFallback(fallbackError) ==
    /\ caught' = fallbackError
    /\ pc' = "appendAuditBothFailed"

\* line 92: await context.runPython(fallbackCode)
RunFallback(o) ==
    /\ pc = "runFallback"
    /\ UNCHANGED <<earlier, elsewhere>>
    /\ o = NextPythonOutcome
    /\ calls' = Append(calls, Call("runPython", fallbackCode, o))
    /\ IF o.ok
       THEN /\ fallbackResult' = o.value
            /\ pc' = "saveLearning"
            /\ UNCHANGED caught
       ELSE /\ CatchFallback(o.error)
            /\ UNCHANGED fallbackResult
    /\ UNCHANGED <<context, mutating, approved, message, fallbackCode, primaryResult,
                   audits, outcome>>

\* lines 93-100: await context.saveLearning(...), inside the inner try
SaveLearning(o) ==
    /\ pc = "saveLearning"
    /\ UNCHANGED <<earlier, elsewhere>>
    /\ calls' = Append(calls, Call("saveLearning",
                                   FallbackLearning(context, message, fallbackCode), o))
    /\ IF o.ok
       THEN /\ pc' = "appendAuditFallback"
            /\ UNCHANGED caught
       ELSE CatchFallback(o.error)
    /\ UNCHANGED <<context, mutating, approved, message, fallbackCode, fallbackResult,
                   primaryResult, audits, outcome>>

\* lines 102-121: the audit and the result of a successful fallback, inside the inner try
AppendAuditFallback(o) ==
    /\ pc = "appendAuditFallback"
    /\ UNCHANGED <<earlier, elsewhere>>
    /\ AppendAudit(FallbackSuccessAudit(context, mutating, approved), o)
    /\ IF o.ok
       THEN /\ outcome' = Returned(FallbackResult(context, fallbackResult))
            /\ pc' = "done"
            /\ UNCHANGED caught
       ELSE /\ CatchFallback(o.error)
            /\ UNCHANGED outcome
    /\ UNCHANGED <<context, mutating, approved, message, fallbackCode, fallbackResult,
                   primaryResult>>

\* lines 123-135: the audit and the error when the inner try failed;
\* an error of this appendAudit leaves execute() as it is
AppendAuditBothFailed(o) ==
    /\ pc = "appendAuditBothFailed"
    /\ UNCHANGED <<earlier, elsewhere>>
    /\ AppendAudit(BothFailedAudit(context, mutating, approved, message, MessageOf(caught)), o)
    /\ outcome' = IF o.ok THEN Raised(BothFailedError(message, MessageOf(caught)))
                  ELSE Raised(o.error)
    /\ pc' = "done"
    /\ UNCHANGED <<context, locals>>

\* lines 139-150: the audit of a failed plan that has no fallback, and throw error
AppendAuditFailed(o) ==
    /\ pc = "appendAuditFailed"
    /\ UNCHANGED <<earlier, elsewhere>>
    /\ AppendAudit(FailedAudit(context, mutating, approved, message), o)
    /\ outcome' = IF o.ok THEN Raised(caught) ELSE Raised(o.error)
    /\ pc' = "done"
    /\ UNCHANGED <<context, locals>>

\* the caller has the result or the error; the next execute() starts afresh
\* (the Executor has no fields).  earlier records, for the calls that follow,
\* that the gate accepted a command or that yolo overrode it.
Finish ==
    /\ pc = "done"
    /\ pc' = "idle"
    /\ context' = NoContext
    /\ mutating' = FALSE
    /\ approved' = FALSE
    /\ message' = << >>
    /\ fallbackCode' = << >>
    /\ fallbackResult' = << >>
    /\ primaryResult' = << >>
    /\ caught' = NoError
    /\ calls' = << >>
    /\ audits' = << >>
    /\ outcome' = Running
    /\ earlier' = earlier
                   \cup (IF \E i \in 1..Len(calls) :
                               calls[i].fn = "approveCommand" /\ calls[i].value = TRUE
                         THEN {"accepted"} ELSE {})
                   \cup (IF mutating /\ context.yolo THEN {"overridden"} ELSE {})
    /\ UNCHANGED elsewhere

Next ==
    \/ \E ctx \in Contexts : Execute(ctx)
    \/ \E answer \in BOOLEAN : ApproveCommand(answer)
    \/ \E o \in AppendAuditOutcomes : AppendAuditRejected(o)
    \/ \E o \in SqlOutcomes \cup PythonOutcomes : RunPrimary(o)
    \/ \E o \in AppendAuditOutcomes : AppendAuditPrimary(o)
    \/ \E o \in PythonOutcomes : RunFallback(o)
    \/ \E o \in SaveLearningOutcomes : SaveLearning(o)
    \/ \E o \in AppendAuditOutcomes : AppendAuditFallback(o)
    \/ \E o \in AppendAuditOutcomes : AppendAuditBothFailed(o)
    \/ \E o \in AppendAuditOutcomes : AppendAuditFailed(o)
    \/ Finish

Spec == Init /\ [][Next]_vars

(***************************************************************************)
(* Properties of Executor.execute, stated on the call log of the current   *)
(* call.                                                                   *)
(***************************************************************************)
CallsTo(fn) == {i \in 1..Len(calls) : calls[i].fn = fn}

\* the execution attempts of the call: runSql and runPython
Executions == CallsTo("runSql") \cup CallsTo("runPython")

\* the first execution attempt runs the plan's command: the primary execution
PrimaryIndex == CHOOSE i \in Executions : \A j \in Executions : i <= j

PrimaryFailed == Executions # {} /\ ~calls[PrimaryIndex].ok

PrimarySucceeded == Executions # {} /\ calls[PrimaryIndex].ok

LaterExecutionSucceeded ==
    \E i \in Executions : i > PrimaryIndex /\ calls[i].ok

GateDeclined == \E i \in CallsTo("approveCommand") : calls[i].value = FALSE

GateAccepted == \E i \in CallsTo("approveCommand") : calls[i].value = TRUE

Done == pc = "done"

\* the call returned the result of an execution (not the cancellation)
ReturnedExecutionResult ==
    outcome.kind = "returned" /\ outcome.result.result # CanceledText

\* the audit records execute() has handed to appendAudit
AuditCalls == CallsTo("appendAudit")

\* C1: every execute() call has appended exactly one audit record (made one
\* appendAudit call) when it returns or raises, and the record tells the final
\* outcome: success exactly when the call returns the result of an execution.
C1_ExactlyOneAuditRecord ==
    Done =>
        /\ Cardinality(AuditCalls) = 1
        /\ \A i \in AuditCalls : calls[i].arg.success <=> ReturnedExecutionResult

\* C2: when the classifier flags the plan's command as mutating and yolo is
\* unset, every runSql or runPython call of the execute() is preceded by an
\* approveCommand call, and once the gate has declined there is no runSql or
\* runPython call at all.
C2_ApprovalBeforeExecution ==
    (pc # "idle" /\ Classify(context.plan) /\ ~context.yolo) =>
        /\ \A i \in Executions : \E j \in CallsTo("approveCommand") : j < i
        /\ GateDeclined => Executions = {}

\* a mutating command without override was approved by the gate and then executed
C2_Witness ==
    /\ Classify(context.plan)
    /\ ~context.yolo
    /\ GateAccepted
    /\ \E i \in Executions : \E j \in CallsTo("approveCommand") : j < i

\* C3: when the gate declines, execute() does not raise: it has appended one
\* audit record with success=false and approved=false, made no saveLearning
\* call, and returns the cancellation text with fallbackUsed=false.
C3_DeclineIsANormalOutcome ==
    (Done /\ GateDeclined) =>
        /\ outcome.kind = "returned"
        /\ Cardinality(AuditCalls) = 1
        /\ \A i \in AuditCalls : ~calls[i].arg.success /\ ~calls[i].arg.approved
        /\ CallsTo("saveLearning") = {}
        /\ outcome.result.result = CanceledText
        /\ ~outcome.result.fallbackUsed

\* C4: in every result execute() returns, fallbackUsed is true iff the primary
\* execution failed and a later execution of the same call succeeded.
C4_FallbackUsedIffRepaired ==
    (Done /\ outcome.kind = "returned") =>
        (outcome.result.fallbackUsed <=> (PrimaryFailed /\ LaterExecutionSucceeded))

\* C5: saveLearning is called only after a failed primary execution was
\* repaired by a later successful execution: never after a successful primary
\* execution, never after a declined approval, never when every execution failed.
C5_LearningOnlyOnRepair ==
    CallsTo("saveLearning") # {} => (PrimaryFailed /\ LaterExecutionSucceeded)

\* the SQL primary execution failed and the fallback script succeeded
SqlRepairedByFallback ==
    /\ context.plan.language = "sql"
    /\ PrimaryFailed
    /\ LaterExecutionSucceeded

\* the fallback execution that succeeded
FallbackIndex == CHOOSE i \in Executions : i > PrimaryIndex /\ calls[i].ok

\* C6: when the SQL primary execution fails and the fallback script succeeds,
\* execute() has called saveLearning exactly once, with language python, the
\* executed fallback script as command and the symptom "SQL failed: " followed
\* by the primary error message; it has appended one audit record with
\* success=true and returns the fallback's output with fallbackUsed=true and
\* the seed explanation followed by the fallback note.
C6_FallbackRepairRecorded ==
    (Done /\ SqlRepairedByFallback) =>
        /\ Cardinality(CallsTo("saveLearning")) = 1
        /\ \A i \in CallsTo("saveLearning") :
              /\ calls[i].arg.language = "python"
              /\ calls[i].arg.command = calls[FallbackIndex].arg
              /\ calls[i].arg.symptom =
                    SqlFailedPrefix \o MessageOf(calls[PrimaryIndex].error)
        /\ Cardinality(AuditCalls) = 1
        /\ \A i \in AuditCalls : calls[i].arg.success
        /\ outcome.kind = "returned"
        /\ outcome.result.result = calls[FallbackIndex].value
        /\ outcome.result.fallbackUsed
        /\ outcome.result.explanation = context.plan.explanationSeed \o FallbackNote

SaveLearningFailed == \E i \in CallsTo("saveLearning") : ~calls[i].ok

\* C7: when the fallback execution succeeds and saveLearning raises, execute()
\* still returns the fallback's result with fallbackUsed=true and has appended
\* an audit record with success=true.
C7_LearningFailureNotSurfaced ==
    (Done /\ PrimaryFailed /\ LaterExecutionSucceeded /\ SaveLearningFailed) =>
        /\ outcome.kind = "returned"
        /\ outcome.result.fallbackUsed
        /\ outcome.result.result = calls[FallbackIndex].value
        /\ \E i \in AuditCalls : calls[i].arg.success

AppendAuditFailedOnce == \E i \in AuditCalls : ~calls[i].ok

\* C8: when the primary execution succeeds and appendAudit raises, execute()
\* still returns the primary result with fallbackUsed=false.
C8_AuditFailureNotSurfaced ==
    (Done /\ PrimarySucceeded /\ AppendAuditFailedOnce) =>
        /\ outcome.kind = "returned"
        /\ outcome.result.result = calls[PrimaryIndex].value
        /\ ~outcome.result.fallbackUsed

\* the fallback execution of a SQL plan: the runPython call
SqlFallbackFailed ==
    /\ context.plan.language = "sql"
    /\ PrimaryFailed
    /\ \E i \in CallsTo("runPython") : ~calls[i].ok

\* C9: when the SQL primary execution fails and the fallback execution fails
\* too, execute() has appended one audit record with success=false whose error
\* holds both messages, raises one error whose message holds both messages,
\* and makes no saveLearning call.
C9_BothFailuresReported ==
    (Done /\ SqlFallbackFailed) =>
        LET primaryMessage == MessageOf(calls[PrimaryIndex].error)
            fallbackMessage ==
                MessageOf(calls[CHOOSE i \in CallsTo("runPython") : TRUE].error)
        IN  /\ Cardinality(AuditCalls) = 1
            /\ \A i \in AuditCalls :
                  /\ ~calls[i].arg.success
                  /\ Includes(calls[i].arg.error, primaryMessage)
                  /\ Includes(calls[i].arg.error, fallbackMessage)
            /\ outcome.kind = "raised"
            /\ outcome.error.isError
            /\ Includes(outcome.error.message, primaryMessage)
            /\ Includes(outcome.error.message, fallbackMessage)
            /\ CallsTo("saveLearning") = {}

\* an error message that says the table context variable is undefined
IsMissingTablesError(msg) == Includes(msg, <<"'", "tables", "'", " is not defined">>)

PythonFailedPrefix == <<"Python failed: ">>

\* a Python plan, its run fails for the missing table context, and the
\* context's runPython succeeds when called a second time
MissingTablesThenSuccess ==
    /\ context.plan.language = "python"
    /\ PrimaryFailed
    /\ IsMissingTablesError(MessageOf(calls[PrimaryIndex].error))
    /\ context.pyScript[2].ok

\* C10: when a Python plan fails for the missing table context and the retry
\* with the injected context succeeds, execute() has made exactly two runPython
\* calls, the second on the command prefixed by a declaration of tables, has
\* called saveLearning once with a symptom starting "Python failed: ", has
\* appended a single audit record with success=true and returns the retry's
\* output with fallbackUsed=true.
C10_TableContextRetry ==
    (Done /\ MissingTablesThenSuccess) =>
        /\ Cardinality(CallsTo("runPython")) = 2
        /\ \A i \in CallsTo("runPython") :
              i > PrimaryIndex =>
                  /\ StartsWith(calls[i].arg, <<"tables = ">>)
                  /\ Includes(calls[i].arg, context.plan.command)
        /\ Cardinality(CallsTo("saveLearning")) = 1
        /\ \A i \in CallsTo("saveLearning") :
              StartsWith(calls[i].arg.symptom, PythonFailedPrefix)
        /\ Cardinality(AuditCalls) = 1
        /\ \A i \in AuditCalls : calls[i].arg.success
        /\ outcome.kind = "returned"
        /\ outcome.result.result = context.pyScript[2].value
        /\ outcome.result.fallbackUsed

\* a Python plan, its run fails for the missing table context, and the
\* context's runPython fails again when called a second time
MissingTablesThenFailure ==
    /\ context.plan.language = "python"
    /\ PrimaryFailed
    /\ IsMissingTablesError(MessageOf(calls[PrimaryIndex].error))
    /\ ~context.pyScript[2].ok

\* C11: when a Python plan fails for the missing table context and the retry
\* fails as well, execute() has made exactly two runPython calls, has appended
\* a single audit record, with success=false and an error that tells of the
\* failed retry, has not called saveLearning, and raises one error whose
\* message holds both the first error's message and the retry's.
C11_TableContextRetryFails ==
    (Done /\ MissingTablesThenFailure) =>
        /\ Cardinality(CallsTo("runPython")) = 2
        /\ Cardinality(AuditCalls) = 1
        /\ \A i \in AuditCalls :
              /\ ~calls[i].arg.success
              /\ Includes(calls[i].arg.error, MessageOf(context.pyScript[2].error))
        /\ CallsTo("saveLearning") = {}
        /\ outcome.kind = "raised"
        /\ Includes(MessageOf(outcome.error), MessageOf(calls[PrimaryIndex].error))
        /\ Includes(MessageOf(outcome.error), MessageOf(context.pyScript[2].error))

\* C12: within one execute() of a Python plan, runPython is called at most
\* twice (a failed execution is re-executed at most once), whether or not the
\* second execution fails, so the call makes at most five collaborator calls
\* (the gate, two executions, saveLearning, appendAudit) and ends once they
\* have returned.
C12_AtMostOneReExecution ==
    (pc # "idle" /\ context.plan.language = "python") =>
        /\ Cardinality(CallsTo("runPython")) <= 2
        /\ Len(calls) <= 5

\* a Python plan whose execution failed, at the end of the call
C12_Witness ==
    /\ Done
    /\ context.plan.language = "python"
    /\ PrimaryFailed

\* C13: when the command is not mutating, or is mutating with yolo set, the
\* gate is never called, every audit record of the call carries approved=true,
\* and the call goes on to execute the command.
C13_NoGateWhenNotNeeded ==
    (pc # "idle" /\ (~Classify(context.plan) \/ context.yolo)) =>
        /\ CallsTo("approveCommand") = {}
        /\ \A i \in AuditCalls : calls[i].arg.approved
        /\ Done => Executions # {}

\* a mutating command with yolo set has been executed and audited
C13_Witness ==
    /\ Done
    /\ Classify(context.plan)
    /\ context.yolo
    /\ Executions # {}
    /\ AuditCalls # {}

\* C14: approval is not remembered from one call to the next: every execute()
\* with a mutating command and yolo unset calls the gate exactly once, whatever
\* the earlier calls were granted.
C14_ApprovalNotRemembered ==
    (Done /\ Classify(context.plan) /\ ~context.yolo) =>
        Cardinality(CallsTo("approveCommand")) = 1

\* the gate is asked again after a call it accepted and a call yolo overrode
C14_Witness ==
    /\ Done
    /\ Classify(context.plan)
    /\ ~context.yolo
    /\ earlier = {"accepted", "overridden"}
    /\ Cardinality(CallsTo("approveCommand")) = 1

\* createPlan returns this plan for some completion or prompt
PlannerReturns(plan) ==
    \E isConfigured \in BOOLEAN, completion \in PlannedPlans, prompt \in Prompts :
        createPlan(isConfigured, completion, prompt) = plan

\* C15: when the classifier flags the command of a plan as mutating, the plan
\* that createPlan and execute() hand back in the result has
\* requiresApproval=true, also when the planner declared it false, for SQL and
\* Python plans alike.
C15_RequiresApprovalForced ==
    (/\ outcome.kind = "returned"
     /\ PlannerReturns(context.plan)
     /\ Classify(context.plan)) =>
        outcome.result.plan.requiresApproval

\* the last execution attempt of the call
LastExecution == CHOOSE i \in Executions : \A j \in Executions : j <= i

\* C16: the command of the result execute() returns is the command of its last
\* execution: the plan's command when that succeeded at once, the fallback
\* script when the fallback produced the result.
C16_CommandActuallyRun ==
    ReturnedExecutionResult =>
        outcome.result.command = calls[LastExecution].arg

(***************************************************************************)
(* src/unnamed/part_014: MarkdownMemoryService, over the paths of          *)
(* shared/src/paths.ts and the file helpers of src/unnamed/part_016.       *)
(*                                                                         *)
(* A text is the sequence of its pieces: a piece is a character or a       *)
(* literal of the program or of its input, and "\n" and the block          *)
(* delimiter "## Learning " are always pieces of their own.  A path is     *)
(* known by the scope that owns the file (NoDataset: the project), by its  *)
(* kind (the curated MEMORY.md or a daily file) and by the day of a daily  *)
(* file.                                                                   *)
(***************************************************************************)
\* the first daily file of an owner
FirstDailyPath(owner) == [owner |-> owner, kind |-> "daily", day |-> 1]

\* paths.ts line 21 and part_014 lines 108-109: <root>/MEMORY.md
CuratedPath(owner) == [owner |-> owner, kind |-> "curated", day |-> 0]

\* part_014 lines 28 and 54: <root>/memory/<day>.md
DailyPath(owner, day) == [owner |-> owner, kind |-> "daily", day |-> day]

\* part_016 lines 54-56
readText(fs, path) == fs[path]

\* part_016 lines 62-64: appendFileSync creates the file when it is missing
appendText(fs, path, content) ==
    IF path \in DOMAIN fs THEN [fs EXCEPT ![path] = @ \o content]
    ELSE fs @@ (path :> content)

writeTextAppending(fs, path, content) == appendText(fs, path, content)

\* part_016 lines 58-60: writeFileSync replaces the content
writeText(fs, path, content) ==
    IF path \in DOMAIN fs THEN [fs EXCEPT ![path] = content]
    ELSE fs @@ (path :> content)

\* Array.prototype.slice(0, n)
Take(s, n) == SubSeq(s, 1, IF Len(s) < n THEN Len(s) ELSE n)

\* Array.prototype.join
RECURSIVE Join(_, _)
Join(texts, separator) ==
    IF texts = << >> THEN << >>
    ELSE IF Len(texts) = 1 THEN Head(texts)
    ELSE Head(texts) \o separator \o Join(Tail(texts), separator)

\* the days in ascending order: the daily files of a directory, by name
RECURSIVE Ascending(_)
Ascending(days) ==
    IF days = {} THEN << >>
    ELSE LET first == CHOOSE d \in days : \A e \in days : d <= e
         IN  <<first>> \o Ascending(days \ {first})

\* String.prototype.split, on a separator that is one piece
Split(text, separator) ==
    LET cuts == Ascending({i \in 1..Len(text) : text[i] = separator})
        n == Len(cuts)
    IN  [k \in 1..(n + 1) |->
            SubSeq(text, IF k = 1 THEN 1 ELSE cuts[k - 1] + 1,
                         IF k = n + 1 THEN Len(text) ELSE cuts[k] - 1)]

\* part_016 lines 13-31, on a memory directory: the daily files in it
listFilesRecursively(fs, owner) ==
    LET days == Ascending({p.day : p \in {q \in DOMAIN fs :
                                             q.owner = owner /\ q.kind = "daily"}})
    IN  [i \in 1..Len(days) |-> DailyPath(owner, days[i])]

\* the dataset directories under datasetsRoot, as readdirSync lists them
DatasetDirectories == <<"dataset_a", "dataset_b">>

\* part_016 lines 13-31 and part_014 line 139, on datasetsRoot: the directory
\* pushed last is listed first; each gives its MEMORY.md, then its memory/
RECURSIVE listDatasetsRoot(_, _)
listDatasetsRoot(fs, k) ==
    IF k = 0 THEN << >>
    ELSE <<CuratedPath(DatasetDirectories[k])>>
         \o listFilesRecursively(fs, DatasetDirectories[k])
         \o listDatasetsRoot(fs, k - 1)

\* part_014 lines 119-153
memoryFiles(fs, datasetId) ==
    LET global == <<CuratedPath(NoDataset)>> \o listFilesRecursively(fs, NoDataset)
        scoped == IF datasetId # NoDataset
                  THEN <<CuratedPath(datasetId)>> \o listFilesRecursively(fs, datasetId)
                  ELSE listDatasetsRoot(fs, Len(DatasetDirectories))
        Readable(path) == path \in DOMAIN fs
    IN  SelectSeq(global \o scoped, Readable)

\* part_014 lines 155-165
readAllMemoryText(fs, datasetId) ==
    LET paths == memoryFiles(fs, datasetId)
    IN  Join([i \in 1..Len(paths) |-> readText(fs, paths[i])], <<"\n">>)

(***************************************************************************)
(* saveLearning.  The inputs are those of the two tests in                 *)
(* src/unnamed/part_012, the first also with another command and the       *)
(* second also for the dataset of the first.  sha256 is a table from the   *)
(* strings the model hashes to distinct digests; a digest is two pieces,   *)
(* its first 12 characters and the rest.                                   *)
(***************************************************************************)
TypeMismatch ==
    [symptom |-> <<"Type mismatch">>, rootCause |-> <<"Column is TEXT">>,
     fix |-> <<"Cast to INT">>, command |-> <<"SELECT CAST(x AS INT) FROM t">>,
     language |-> "sql"]

TypeMismatchOtherCommand ==
    [TypeMismatch EXCEPT !.command = <<"SELECT CAST(x AS INT)", "\n", "FROM t">>]

WrongDateFormat ==
    [symptom |-> <<"SQL failed">>, rootCause |-> <<"Wrong date format">>,
     fix |-> <<"Use strptime">>, command |-> <<"SELECT strptime(x, '%Y-%m-%d') FROM t">>,
     language |-> "sql"]

LearningInput(datasetId, fixture) ==
    [datasetId |-> datasetId, symptom |-> fixture.symptom,
     rootCause |-> fixture.rootCause, fix |-> fixture.fix,
     command |-> fixture.command, language |-> fixture.language]

LearningInputs ==
    { LearningInput("dataset_a", TypeMismatch),
      LearningInput("dataset_a", TypeMismatchOtherCommand),
      LearningInput("dataset_a", WrongDateFormat),
      LearningInput("dataset_b", WrongDateFormat) }

\* line 31: `${input.datasetId}:${input.symptom}:${input.fix}`
FingerprintSource(input) ==
    <<input.datasetId, ":">> \o input.symptom \o <<":">> \o input.fix

Hashed ==
    << <<"dataset_a", ":", "Type mismatch", ":", "Cast to INT">>,
       <<"dataset_a", ":", "SQL failed", ":", "Use strptime">>,
       <<"dataset_b", ":", "SQL failed", ":", "Use strptime">> >>

Digests ==
    << <<"3f2a9c0d1e4b", "7a805c6d9e1f2b3a4c5d6e7f8091a2b3c4d5e6f708192a3b4c5d">>,
       <<"b1946ac92492", "d2347c6235b4d2611184f0e1a2b3c4d5e6f7a8b9c0d1e2f3a4b5">>,
       <<"e7f6c011776e", "8db7cd330b54174fd76f7d0216b612387a5ffcfb81e6f0919683">> >>

\* part_016 lines 50-52
sha256(value) == Digests[CHOOSE k \in DOMAIN Hashed : Hashed[k] = value]

\* the date part of an ISO timestamp, part_014 lines 168-170
DayName(day) ==
    IF day = 1 THEN "2026-03-01" ELSE IF day = 2 THEN "2026-03-02"
    ELSE IF day = 3 THEN "2026-03-03" ELSE "2026-03-04"

\* lines 37-50; created_at is the wall clock, kept to its date
LearningBlock(input, fingerprint, day) ==
    <<"## Learning ">> \o SubSeq(fingerprint, 1, 1)
    \o <<"\n", "- dataset_id: ", input.datasetId>>
    \o <<"\n", "- symptom: ">> \o input.symptom
    \o <<"\n", "- root_cause: ">> \o input.rootCause
    \o <<"\n", "- fix: ">> \o input.fix
    \o <<"\n", "- language: ", input.language>>
    \o <<"\n", "- command: ">> \o ReplaceAll(input.command, <<"\n">>, <<" ">>)
    \o <<"\n", "- confidence: 0.75">>
    \o <<"\n", "- tags: auto-learning,execution-retry">>
    \o <<"\n", "- created_at: ", DayName(day)>>
    \o <<"\n", "- fingerprint: ">> \o fingerprint
    \o <<"\n">>

NeverRecorded(existing, fingerprint) == FALSE

\* line 33
AlreadyRecorded(existing, fingerprint) == Includes(existing, fingerprint)

\* lines 52-56: the two appends of a saveLearning that found no fingerprint
AppendDailyText(fs, input, day, block) == appendText(fs, DailyPath(input.datasetId, day), block)

AppendGlobalText(fs, day, block) == appendText(fs, DailyPath(NoDataset, day), block)

\* lines 25-57: the files after saveLearning(input) has run alone
SavedFiles(fs, input, day) ==
    LET fingerprint == sha256(FingerprintSource(input))
        existing == readAllMemoryText(fs, input.datasetId)
        block == LearningBlock(input, fingerprint, day)
    IN  IF AlreadyRecorded(existing, fingerprint) THEN fs
        ELSE AppendGlobalText(AppendDailyText(fs, input, day, block), day, block)

\* what the fingerprint of an input is computed from
Triple(input) == <<input.datasetId, input.symptom, input.fix>>

(***************************************************************************)
(* curate.                                                                 *)
(***************************************************************************)
\* [a-f0-9] of line 88, on pieces: the pieces of a digest
HexPieces == {Digests[k][n] : k \in DOMAIN Digests, n \in 1..2}

\* lines 88-89: /fingerprint:\s*([a-f0-9]+)/i, the leftmost match and its
\* longest run of hexadecimal pieces; << >> when nothing matches
fingerprintMatch(block) ==
    LET starts == {i \in 1..(Len(block) - 1) :
                       block[i] = "- fingerprint: " /\ block[i + 1] \in HexPieces}
    IN  IF starts = {} THEN << >>
        ELSE LET at == CHOOSE i \in starts : \A j \in starts : i <= j
                 end == CHOOSE j \in (at + 1)..Len(block) :
                            /\ \A k \in (at + 1)..j : block[k] \in HexPieces
                            /\ j = Len(block) \/ block[j + 1] \notin HexPieces
             IN  SubSeq(block, at + 1, end)

\* lines 84-86: the pieces text.split("## Learning ") gives, file after file
RECURSIVE AllBlocks(_, _)
AllBlocks(fs, paths) ==
    IF paths = << >> THEN << >>
    ELSE Split(readText(fs, Head(paths)), "## Learning ") \o AllBlocks(fs, Tail(paths))

\* lines 82-100: the Map grouped, in insertion order
RECURSIVE Grouped(_, _)
Grouped(blocks, grouped) ==
    IF blocks = << >> THEN grouped
    ELSE LET block == Head(blocks)
             fingerprint == fingerprintMatch(block)
             known == {k \in 1..Len(grouped) : grouped[k].fingerprint = fingerprint}
         IN  IF Trim(block) = << >> \/ fingerprint = << >>
             THEN Grouped(Tail(blocks), grouped)
             ELSE IF known # {}
             THEN Grouped(Tail(blocks),
                          [k \in 1..Len(grouped) |->
                              IF k \in known
                              THEN [grouped[k] EXCEPT !.count = @ + 1]
                              ELSE grouped[k]])
             ELSE Grouped(Tail(blocks),
                          Append(grouped,
                                 [fingerprint |-> fingerprint, count |-> 1,
                                  snippet |-> <<"## Learning ">> \o Trim(block) \o <<"\n">>]))

\* a promotion that keeps the order in which the fingerprints were first read
Unsorted(entries, keys) == entries

\* Array.prototype.sort((a, b) => key(b) - key(a)), keys[i] being the key of
\* entries[i]: stable, largest key first
SortDescending(entries, keys) ==
    LET Position(i) ==
            1 + Cardinality({j \in 1..Len(entries) : keys[j] > keys[i]})
              + Cardinality({j \in 1..(i - 1) : keys[j] = keys[i]})
    IN  [k \in 1..Len(entries) |-> entries[CHOOSE i \in 1..Len(entries) : Position(i) = k]]

\* line 105
PromotionLimit == 50

\* line 112
CuratedHeader == <<"# Curated Memory", "\n", "\n">>

\* lines 80-117: the files after curate(datasetId) and the list it returns
Curation(fs, datasetId) ==
    LET IsDaily(path) == path.kind = "daily"
        inputs == SelectSeq(memoryFiles(fs, datasetId), IsDaily)
        grouped == Grouped(AllBlocks(fs, inputs), << >>)
        promoted == Take(SortDescending(grouped,
                                        [i \in 1..Len(grouped) |-> grouped[i].count]),
                         PromotionLimit)
        body == Join([i \in 1..Len(promoted) |-> promoted[i].snippet], <<"\n">>)
    IN  [files |-> writeText(fs, CuratedPath(datasetId), CuratedHeader \o body),
         value |-> [i \in 1..Len(promoted) |-> promoted[i].fingerprint]]

(***************************************************************************)
(* search.  The texts searched are texts of characters.                    *)
(***************************************************************************)
\* line 60: split(/\s+/).filter(Boolean)
RECURSIVE Words(_)
Words(text) ==
    LET rest == TrimStart(text)
    IN  IF rest = << >> THEN << >>
        ELSE LET n == CHOOSE k \in 1..Len(rest) :
                          /\ \A i \in 1..k : ~IsWhitespace(rest[i])
                          /\ k = Len(rest) \/ IsWhitespace(rest[k + 1])
             IN  <<SubSeq(rest, 1, n)>> \o Words(SubSeq(rest, n + 1, Len(rest)))

\* line 67: one for every term, repeated or not, that the lowered text includes
Score(text, terms) ==
    LET lowered == ToLowerCase(text)
    IN  Cardinality({i \in 1..Len(terms) : Includes(lowered, terms[i])})

\* line 70
SnippetLines == 12

\* line 77
SearchLimit == 12

\* line 70
Snippet(text) == Join(Take(Split(text, "\n"), SnippetLines), <<"\n">>)

MatchesAlways(score) == score >= 0

\* line 68
Matches(score) == score > 0

\* lines 64-75
RECURSIVE Scored(_, _, _)
Scored(fs, paths, terms) ==
    IF paths = << >> THEN << >>
    ELSE LET text == readText(fs, Head(paths))
             score == Score(text, terms)
             rest == Scored(fs, Tail(paths), terms)
         IN  IF Matches(score)
             THEN <<[snippet |-> Snippet(text), source |-> Head(paths), score |-> score]>>
                  \o rest
             ELSE rest

\* lines 59-78
SearchResults(fs, query, datasetId) ==
    LET results == Scored(fs, memoryFiles(fs, datasetId), Words(ToLowerCase(query)))
    IN  Take(SortDescending(results, [i \in 1..Len(results) |-> results[i].score]),
             SearchLimit)

(***************************************************************************)
(* One invocation at a time: every call of the service runs to its end     *)
(* (its file operations are synchronous).                                  *)
(***************************************************************************)
\* the days the wall clock goes through
MaxDays == 2

\* the calls of saveLearning and curate that are followed from the empty store
MaxCalls == 4

saveLearning(input) ==
    /\ served < MaxCalls
    /\ served' = served + 1
    /\ files' = SavedFiles(files, input, today)
    /\ returned' = [NoCall EXCEPT !.op = "saveLearning", !.arg = input,
                                  !.changed = (files' # files),
                                  !.repeated = (Triple(input) \in saved)]
    /\ saved' = saved \cup {Triple(input)}
    /\ curatedBefore' = [scope \in Scopes |-> NotCurated]
    /\ UNCHANGED <<today, saver, executing>>

curate(datasetId) ==
    LET curation == Curation(files, datasetId)
        content == readText(curation.files, CuratedPath(datasetId))
    IN  /\ served < MaxCalls
        /\ served' = served + 1
        /\ files' = curation.files
        /\ returned' = [NoCall EXCEPT !.op = "curate", !.arg = datasetId,
                                      !.value = curation.value,
                                      !.changed = (files' # files),
                                      !.repeated = curatedBefore[datasetId].known,
                                      !.previous =
                                          [content |-> curatedBefore[datasetId].content,
                                           value |-> curatedBefore[datasetId].value]]
        /\ curatedBefore' = [curatedBefore EXCEPT ![datasetId] =
                                [known |-> TRUE, content |-> content,
                                 value |-> curation.value]]
        /\ UNCHANGED <<today, saved, saver, executing>>

\* midnight passes
NextDay ==
    /\ today < MaxDays
    /\ today' = today + 1
    /\ UNCHANGED <<files, returned, curatedBefore, saved, served, saver, executing>>

NextMemory ==
    \/ \E input \in LearningInputs : saveLearning(input)
    \/ \E datasetId \in Scopes : curate(datasetId)
    \/ NextDay

SpecMemory == Init /\ [][NextMemory]_vars

(***************************************************************************)
(* Independent invocations: each is its own process, so the read of line   *)
(* 32 and the appends of lines 52 and 56 of one saveLearning interleave    *)
(* with those of another.                                                  *)
(***************************************************************************)
\* lines 26-50: up to the decision of line 33, on what the files hold now
CheckExisting(p, input) ==
    /\ saver[p].pc = "idle"
    /\ LET fingerprint == sha256(FingerprintSource(input))
           existing == readAllMemoryText(files, input.datasetId)
       IN  IF AlreadyRecorded(existing, fingerprint)
           THEN /\ saved' = saved \cup {Triple(input)}
                /\ UNCHANGED saver
           ELSE /\ saver' = [saver EXCEPT ![p] =
                                [pc |-> "appendDaily", input |-> input,
                                 dailyFile |-> DailyPath(input.datasetId, today),
                                 block |-> LearningBlock(input, fingerprint, today)]]
                /\ UNCHANGED saved
    /\ UNCHANGED <<files, today, returned, curatedBefore, served, executing>>

\* line 52
AppendDaily(p) ==
    /\ saver[p].pc = "appendDaily"
    /\ files' = appendText(files, saver[p].dailyFile, saver[p].block)
    /\ saver' = [saver EXCEPT ![p].pc = "appendGlobal"]
    /\ UNCHANGED <<today, returned, curatedBefore, saved, served, executing>>

\* lines 54-57
AppendGlobal(p) ==
    /\ saver[p].pc = "appendGlobal"
    /\ files' = AppendGlobalText(files, today, saver[p].block)
    /\ saver' = [saver EXCEPT ![p] = SaverIdle]
    /\ saved' = saved \cup {Triple(saver[p].input)}
    /\ UNCHANGED <<today, returned, curatedBefore, served, executing>>

NextRace ==
    \/ \E p \in Invocations, input \in LearningInputs : CheckExisting(p, input)
    \/ \E p \in Invocations : AppendDaily(p)
    \/ \E p \in Invocations : AppendGlobal(p)

SpecRace == Init /\ [][NextRace]_vars

(***************************************************************************)
(* search over the memory files it finds: any layout of daily and curated  *)
(* files, holding any of a few texts.                                      *)
(***************************************************************************)
\* the most daily files a directory holds
SearchDays == 6

TextMixedCase == <<"A", "b", " ", "c">>

TextTwoLines == <<"b", "\n", "x">>

\* thirteen lines, the last one "z"
TextLong == [i \in 1..25 |-> IF i = 25 THEN "z" ELSE IF i % 2 = 1 THEN "a" ELSE "\n"]

TextOther == <<"q">>

SearchTexts == <<TextMixedCase, TextTwoLines, TextLong, TextOther>>

Queries ==
    { << >>,
      <<" ", "\n">>,
      <<"b">>,
      <<"B", " ", "b">>,
      <<"a", " ", "b", " ", " ", "x">>,
      <<"a", "b", "\t", "z", " ", "x">> }

OwnerRank(owner) ==
    IF owner = NoDataset THEN 0 ELSE IF owner = DatasetDirectories[1] THEN 1 ELSE 2

\* which curated files exist
CuratedLayouts == {{}, {NoDataset}, Scopes}

SearchFileSystems ==
    { [p \in {CuratedPath(owner) : owner \in curated}
             \cup {DailyPath(NoDataset, day) : day \in 1..nGlobal}
             \cup {DailyPath(DatasetDirectories[1], day) : day \in 1..nFirst}
             \cup {DailyPath(DatasetDirectories[2], day) : day \in 1..nSecond}
          |-> SearchTexts[((p.day + OwnerRank(p.owner) + shift) % Len(SearchTexts)) + 1]] :
        nGlobal \in {0, SearchDays}, nFirst \in {1, SearchDays},
        nSecond \in {0, SearchDays},
        curated \in CuratedLayouts, shift \in 0..(Len(SearchTexts) - 1) }

InitSearch ==
    /\ NotExecuting
    /\ files \in SearchFileSystems
    /\ today = 1
    /\ returned = NoCall
    /\ curatedBefore = [scope \in Scopes |-> NotCurated]
    /\ saved = {}
    /\ served = 0
    /\ saver = [p \in Invocations |-> SaverIdle]

search(query, datasetId) ==
    /\ returned' = [NoCall EXCEPT !.op = "search",
                                  !.arg = [query |-> query, datasetId |-> datasetId],
                                  !.value = SearchResults(files, query, datasetId)]
    /\ UNCHANGED <<files, today, curatedBefore, saved, served, saver, executing>>

NextSearch == \E query \in Queries, datasetId \in Scopes : search(query, datasetId)

SpecSearch == InitSearch /\ [][NextSearch]_vars

(***************************************************************************)
(* Properties of the memory service.                                       *)
(***************************************************************************)
Occurrences(text, pattern) ==
    Cardinality({i \in 1..Len(text) : MatchesAt(text, i, pattern)})

\* the learning blocks with this fingerprint in the daily files of an owner
BlockCount(owner, fingerprint) ==
    LET paths == {p \in DOMAIN files : p.owner = owner /\ p.kind = "daily"}
        Count[todo \in SUBSET paths] ==
            IF todo = {} THEN 0
            ELSE LET p == CHOOSE q \in todo : TRUE
                 IN  Occurrences(files[p], <<"- fingerprint: ">> \o fingerprint)
                     + Count[todo \ {p}]
    IN  Count[paths]

FingerprintOf(input) == sha256(FingerprintSource(input))

\* C17: saveLearning is idempotent: once it has been called with a (dataset,
\* symptom, fix), the daily files of the dataset hold exactly one learning
\* block with that fingerprint, and so do the global daily files, however
\* often it is called again; a call that repeats an earlier one writes nothing.
C17_SaveLearningIdempotent ==
    /\ \A input \in LearningInputs :
          Triple(input) \in saved =>
              /\ BlockCount(input.datasetId, FingerprintOf(input)) = 1
              /\ BlockCount(NoDataset, FingerprintOf(input)) = 1
    /\ (returned.op = "saveLearning" /\ returned.repeated) => ~returned.changed

\* saveLearning has just been called a second time with the same triple
C17_Witness ==
    /\ returned.op = "saveLearning"
    /\ returned.repeated
    /\ BlockCount(returned.arg.datasetId, FingerprintOf(returned.arg)) = 1

\* C18: for every interleaving of saveLearning calls of independent invocations
\* with the same (dataset, symptom, fix), once the calls have ended the daily
\* files of the dataset hold at most one block with that fingerprint.
C18_AtMostOneBlockUnderRace ==
    (\A p \in Invocations : saver[p].pc = "idle") =>
        \A input \in LearningInputs :
            BlockCount(input.datasetId, FingerprintOf(input)) <= 1

\* the tokens of a query: its maximal runs of characters that are not
\* whitespace, each known by where it starts and ends
TokenSpans(query) ==
    {span \in (1..Len(query)) \X (1..Len(query)) :
        /\ span[1] <= span[2]
        /\ \A k \in span[1]..span[2] : ~IsWhitespace(query[k])
        /\ span[1] = 1 \/ IsWhitespace(query[span[1] - 1])
        /\ span[2] = Len(query) \/ IsWhitespace(query[span[2] + 1])}

Token(query, span) == SubSeq(ToLowerCase(query), span[1], span[2])

TokensPresent(text, query) ==
    {span \in TokenSpans(query) : Includes(ToLowerCase(text), Token(query, span))}

\* a token the query repeats counts every time
TokenScore(text, query) == Cardinality(TokensPresent(text, query))

DistinctTokenScore(text, query) ==
    Cardinality({Token(query, span) : span \in TokensPresent(text, query)})

\* the project's memory files, and those of the dataset asked for (of every
\* dataset when none is asked for)
InScope(path, datasetId) ==
    /\ path \in DOMAIN files
    /\ path.owner = NoDataset \/ datasetId = NoDataset \/ path.owner = datasetId

IsFirstLines(snippet, text, n) ==
    LET breaks == Cardinality({i \in 1..Len(snippet) : snippet[i] = "\n"})
    IN  /\ Len(snippet) <= Len(text)
        /\ SubSeq(text, 1, Len(snippet)) = snippet
        /\ \/ snippet = text /\ breaks <= n - 1
           \/ /\ Len(snippet) < Len(text)
              /\ text[Len(snippet) + 1] = "\n"
              /\ breaks = n - 1

\* what search has returned, expected[i] being the score its i-th result
\* is to carry
SearchContract(expected) ==
    returned.op = "search" =>
        LET query == returned.arg.query
            results == returned.value
        IN  /\ \A i \in 1..Len(results) :
                  /\ InScope(results[i].source, returned.arg.datasetId)
                  /\ results[i].score = expected[i]
                  /\ results[i].score > 0
                  /\ IsFirstLines(results[i].snippet, files[results[i].source], 12)
            /\ \A i \in 1..Len(results), j \in 1..Len(results) :
                  i < j => results[i].score >= results[j].score
            /\ Len(results) <= 12
            /\ TokenSpans(query) = {} => results = << >>

\* C19 as stated: search returns only files in scope whose score, the number
\* of distinct lower-cased query tokens the lower-cased text includes, is
\* positive, in order of non-increasing score, at most 12 of them, each with
\* the first 12 lines of the file as snippet; it returns the empty list for a
\* query without tokens.
C19_SearchByDistinctTokens ==
    SearchContract([i \in 1..Len(returned.value) |->
                       DistinctTokenScore(files[returned.value[i].source],
                                          returned.arg.query)])

\* C19, amended: as above, the score being the number of query tokens the
\* text includes with every repetition of a token in the query counted.
C19_SearchByTokenCount ==
    SearchContract([i \in 1..Len(returned.value) |->
                       TokenScore(files[returned.value[i].source], returned.arg.query)])

\* more than 12 files match, with different scores; 12 are returned, one of
\* them with a snippet shorter than its file
C19_Witness ==
    /\ returned.op = "search"
    /\ Len(returned.value) = 12
    /\ Cardinality({p \in DOMAIN files :
                       /\ InScope(p, returned.arg.datasetId)
                       /\ TokenScore(files[p], returned.arg.query) > 0}) > 12
    /\ returned.value[1].score > returned.value[12].score
    /\ \E i \in 1..12 : returned.value[i].snippet # files[returned.value[i].source]

\* the daily files alone
DailyFilesOnly == [p \in {q \in DOMAIN files : q.kind = "daily"} |-> files[p]]

\* C20: curate overwrites the curated file (the file holds one header, not one
\* for every run) and is idempotent: a curate of a scope that follows a curate
\* of the same scope with no saveLearning in between leaves the same curated
\* content and returns the same fingerprints; the curated files are no input
\* of it (the daily files alone give the same content and the same list).
C20_CurateIdempotent ==
    returned.op = "curate" =>
        LET target == CuratedPath(returned.arg)
            alone == Curation(DailyFilesOnly, returned.arg)
        IN  /\ target \in DOMAIN files
            /\ Occurrences(files[target], <<"# Curated Memory">>) = 1
            /\ returned.repeated =>
                  /\ files[target] = returned.previous.content
                  /\ returned.value = returned.previous.value
            /\ files[target] = alone.files[target]
            /\ returned.value = alone.value

\* curate has run again on a scope with learnings, nothing saved in between
C20_Witness ==
    /\ returned.op = "curate"
    /\ returned.repeated
    /\ returned.value # << >>
    /\ \E scope \in Scopes \ {returned.arg} : curatedBefore[scope].known

(***************************************************************************)
(* Further properties of Executor.execute.                                 *)
(***************************************************************************)
\* a Python plan whose run fails for another reason than the missing table
\* context
PythonFailedOtherwise ==
    /\ context.plan.language = "python"
    /\ PrimaryFailed
    /\ ~IsMissingTablesError(MessageOf(calls[PrimaryIndex].error))

\* C25: when a Python plan fails with an error that is not the missing table
\* context, execute() has made no other execution attempt and no saveLearning
\* call, has appended one audit record, with success=false and the message of
\* the error, and raises the error runPython raised.
C25_PythonFailureIsFinal ==
    (Done /\ PythonFailedOtherwise) =>
        /\ Cardinality(Executions) = 1
        /\ CallsTo("saveLearning") = {}
        /\ Cardinality(AuditCalls) = 1
        /\ \A i \in AuditCalls :
              /\ ~calls[i].arg.success
              /\ calls[i].arg.error = MessageOf(calls[PrimaryIndex].error)
        /\ outcome.kind = "raised"
        /\ outcome.error = calls[PrimaryIndex].error

\* C27: the fallback script runs only after the primary SQL execution itself
\* raised: when the primary execution succeeded, the call makes no other
\* execution, also when appendAudit raises after the success.
C27_FallbackOnlyAfterPrimaryFailure ==
    PrimarySucceeded => Cardinality(Executions) = 1

\* C28: the command of a plan that declares requiresApproval=true is executed
\* only after the gate accepted it or with yolo set, also when the classifier
\* finds the command not mutating.
C28_DeclaredApprovalRespected ==
    (context.plan.requiresApproval /\ Executions # {}) =>
        (GateAccepted \/ context.yolo)

DailyInScope(datasetId) ==
    {p \in DOMAIN files : p.kind = "daily" /\ InScope(p, datasetId)}

\* the learning blocks with this fingerprint in the daily files of a scope
ScopeCount(datasetId, fingerprint) ==
    LET paths == DailyInScope(datasetId)
        Count[todo \in SUBSET paths] ==
            IF todo = {} THEN 0
            ELSE LET p == CHOOSE q \in todo : TRUE
                 IN  Occurrences(files[p], <<"- fingerprint: ">> \o fingerprint)
                     + Count[todo \ {p}]
    IN  Count[paths]

C26_CurateWritesOnlyItsCuratedFile ==
    [][(returned'.op = "curate" /\ served' # served) =>
          /\ \A p \in DOMAIN files :
                /\ p \in DOMAIN files'
                /\ p.kind = "daily" => files'[p] = files[p]
          /\ \A p \in DOMAIN files' :
                (p \notin DOMAIN files \/ files'[p] # files[p]) =>
                    (p.kind = "curated" /\ p.owner = returned'.arg)
          /\ audits' = audits
          /\ calls' = calls]_vars

\* curate has rewritten the curated file of a scope that has learning blocks
\* in its daily files, while another scope has its curated file too
C26_Witness ==
    /\ returned.op = "curate"
    /\ returned.changed
    /\ returned.value # << >>
    /\ \E p \in DOMAIN files : p.kind = "curated" /\ p.owner # returned.arg
    /\ \E p \in DOMAIN files : p.kind = "daily" /\ p.owner # returned.arg /\ p.owner # NoDataset

\* C30: curate(datasetId) for a dataset promotes the learning blocks of that
\* dataset alone: its curated file holds no block whose dataset_id is another
\* dataset, and the list returned holds no fingerprint of a learning saved for
\* another dataset.
C30_CurateKeepsToItsDataset ==
    (returned.op = "curate" /\ returned.arg # NoDataset) =>
        \A other \in DatasetIds \ {returned.arg} :
            /\ ~Includes(files[CuratedPath(returned.arg)], <<"- dataset_id: ", other>>)
            /\ \A input \in LearningInputs :
                  input.datasetId = other =>
                      \A i \in 1..Len(returned.value) :
                          returned.value[i] # FingerprintOf(input)

(***************************************************************************)
(* security.ts lines 62-92: Planner.createPlan, with the completion client *)
(* of src/unnamed/part_020 as its collaborator.  calls is the log of the    *)
(* completion calls of the current createPlan, outcome how it ended, and   *)
(* returned.arg what it was called with.                                   *)
(***************************************************************************)
\* part_020 line 60
RequestFailedText == <<"OpenRouter request failed (500): upstream error">>

\* part_020 line 69
EmptyResponseText == <<"OpenRouter response did not include message content.">>

\* part_020 lines 82-83
InvalidJsonText == <<"OpenRouter returned invalid JSON. Raw content: not json">>

\* part_020 lines 75-87: chatJson resolves with the parsed plan or rejects
ChatJsonOutcomes ==
    { Resolved(plan) : plan \in Plans }
    \cup { Rejected(NewError(RequestFailedText)),
           Rejected(NewError(EmptyResponseText)),
           Rejected(NewError(InvalidJsonText)) }

\* lines 65-81: createPlan(context) up to its completion call, if it makes one
CreatePlan(prompt, isConfigured) ==
    /\ pc = "idle"
    /\ served < MaxCalls
    /\ served' = served + 1
    /\ returned' = [NoCall EXCEPT !.op = "createPlan",
                                  !.arg = [prompt |-> prompt,
                                           isConfigured |-> isConfigured]]
    /\ calls' = << >>
    /\ IF ~isConfigured
       THEN /\ outcome' = Returned(createPlan(FALSE, NoContext.plan, prompt))
            /\ pc' = "idle"
       ELSE /\ outcome' = Running
            /\ pc' = "chatJson"
    /\ UNCHANGED <<context, mutating, approved, message, fallbackCode, fallbackResult,
                   primaryResult, caught, audits, earlier>>
    /\ UNCHANGED <<files, today, curatedBefore, saved, saver>>

\* a completion call that is made again when it rejects for the first time
ChatJsonRetrying(o) ==
    /\ pc = "chatJson"
    /\ calls' = Append(calls, Call("chatJson", returned.arg.prompt, o))
    /\ IF o.ok
       THEN /\ outcome' = Returned(createPlan(TRUE, o.value, returned.arg.prompt))
            /\ pc' = "idle"
       ELSE IF calls = << >>
            THEN /\ outcome' = outcome
                 /\ pc' = "chatJson"
            ELSE /\ outcome' = Raised(o.error)
                 /\ pc' = "idle"
    /\ UNCHANGED <<context, mutating, approved, message, fallbackCode, fallbackResult,
                   primaryResult, caught, audits, earlier, elsewhere>>

\* lines 81-91: the completion call, its outcome, and the rest of createPlan
ChatJson(o) ==
    /\ pc = "chatJson"
    /\ calls' = Append(calls, Call("chatJson", returned.arg.prompt, o))
    /\ outcome' = IF o.ok
                  THEN Returned(createPlan(TRUE, o.value, returned.arg.prompt))
                  ELSE Raised(o.error)
    /\ pc' = "idle"
    /\ UNCHANGED <<context, mutating, approved, message, fallbackCode, fallbackResult,
                   primaryResult, caught, audits, earlier, elsewhere>>

NextPlanner ==
    \/ \E prompt \in Prompts, isConfigured \in BOOLEAN : CreatePlan(prompt, isConfigured)
    \/ \E o \in ChatJsonOutcomes : ChatJson(o)

SpecPlanner == Init /\ [][NextPlanner]_vars

\* createPlan has ended
Planned == returned.op = "createPlan" /\ pc = "idle"

\* C23: createPlan answers with the heuristic plan exactly when the completion
\* client is not configured, and then makes no completion call and does not
\* raise; when the client is configured it makes exactly one completion call,
\* returns the plan of that call, and raises the error of that call, as it is,
\* when the call fails.
C23_HeuristicIffUnconfigured ==
    Planned =>
        IF ~returned.arg.isConfigured
        THEN /\ calls = << >>
             /\ outcome = Returned(heuristicPlan(returned.arg.prompt))
        ELSE /\ Len(calls) = 1
             /\ calls[1].fn = "chatJson"
             /\ IF calls[1].ok
                THEN /\ outcome.kind = "returned"
                     /\ outcome.result.language = calls[1].value.language
                     /\ outcome.result.command = calls[1].value.command
                     /\ outcome.result.explanationSeed = calls[1].value.explanationSeed
                ELSE outcome = Raised(calls[1].error)

\* a configured planner whose completion call failed, in a createPlan that is
\* not the first
C23_Witness ==
    /\ Planned
    /\ returned.arg.isConfigured
    /\ served >= 2
    /\ Len(calls) = 1
    /\ outcome = Raised(NewError(InvalidJsonText))

(***************************************************************************)
(* Properties of the classifier.                                           *)
(***************************************************************************)
\* the command holds a mutation keyword, in any letter case, with no word
\* character before it and none after it
HasKeywordToken(sql) ==
    LET lowered == ToLowerCase(sql)
    IN  \E k \in 1..Len(SQL_MUTATION_KEYWORDS), i \in 1..Len(lowered) :
            LET keyword == SQL_MUTATION_KEYWORDS[k]
                after == i + Len(keyword)
            IN  /\ MatchesAt(lowered, i, keyword)
                /\ WordBoundaryBefore(lowered, i)
                /\ after > Len(lowered) \/ lowered[after] \notin WordChars

\* C22: isMutatingSql is true of every command that holds one of the ten
\* keywords as a standalone token (no word character before or after it, the
\* start and the end of the command included, any letter case) and false of
\* "select 1": the classification execute() has made of a SQL plan says so.
C22_KeywordTokenIsMutating ==
    (pc # "idle" /\ context.plan.language = "sql") =>
        /\ HasKeywordToken(context.plan.command) => mutating
        /\ ToLowerCase(context.plan.command) = ToLowerCase(SqlSelect) => ~mutating

(***************************************************************************)
(* session-state-service.ts: SessionStateService.  The session file is     *)
(* what JSON.parse makes of its text: nothing (the text is no JSON), a      *)
(* value that is no object, or an object whose three members are a string, *)
(* a number or missing.  The file is any of these when the service starts. *)
(***************************************************************************)
\* paths.ts line 19: .dataclaw/session.json
SessionStatePath == [owner |-> NoDataset, kind |-> "session", day |-> 0]

JsonString(chars) == [type |-> "string", chars |-> chars, number |-> 0]

JsonNumber(n) == [type |-> "number", chars |-> << >>, number |-> n]

JsonMissing == [type |-> "missing", chars |-> << >>, number |-> 0]

OwnerDataset == <<"o", "w", "n", "e", "r">>

OtherDataset == <<"o", "t", "h", "e", "r">>

PaddedOwnerDataset == <<" ">> \o OwnerDataset \o <<" ">>

UpdatedAt == <<"2", "0", "2", "6">>

JsonObject(schemaVersion, defaultDatasetId, updatedAt) ==
    [parses |-> TRUE, object |-> TRUE, schemaVersion |-> schemaVersion,
     defaultDatasetId |-> defaultDatasetId, updatedAt |-> updatedAt]

\* a text that JSON.parse rejects
NotJson ==
    [parses |-> FALSE, object |-> FALSE, schemaVersion |-> JsonMissing,
     defaultDatasetId |-> JsonMissing, updatedAt |-> JsonMissing]

\* the text "null" or "42": JSON, but no object
NotAnObject == [NotJson EXCEPT !.parses = TRUE]

SessionPayloads ==
    { JsonObject(v, d, u) :
        v \in {JsonNumber(1), JsonNumber(2), JsonString(<<"1">>)},
        d \in {JsonString(OwnerDataset), JsonString(OtherDataset),
               JsonString(PaddedOwnerDataset), JsonString(<<" ">>), JsonNumber(42)},
        u \in {JsonString(UpdatedAt), JsonString(<< >>), JsonMissing} }
    \cup {NotJson, NotAnObject}

\* lines 19-41: readState() is null (valid false) or the state read
NoState == [valid |-> FALSE, defaultDatasetId |-> << >>, updatedAt |-> << >>]

readState(fs) ==
    IF SessionStatePath \notin DOMAIN fs THEN NoState
    ELSE LET parsed == fs[SessionStatePath]
         IN  IF ~parsed.parses \/ ~parsed.object THEN NoState
             ELSE IF parsed.schemaVersion # JsonNumber(1) THEN NoState
             ELSE IF \/ parsed.defaultDatasetId.type # "string"
                     \/ Trim(parsed.defaultDatasetId.chars) = << >> THEN NoState
             ELSE IF \/ parsed.updatedAt.type # "string"
                     \/ Trim(parsed.updatedAt.chars) = << >> THEN NoState
             ELSE [valid |-> TRUE,
                   defaultDatasetId |-> Trim(parsed.defaultDatasetId.chars),
                   updatedAt |-> Trim(parsed.updatedAt.chars)]

\* a clearDefaultDatasetId that leaves the file where it is
clearNothing(fs) == fs

\* lines 72-76
clearDefaultDatasetId(fs) ==
    IF SessionStatePath \notin DOMAIN fs THEN fs
    ELSE [path \in DOMAIN fs \ {SessionStatePath} |-> fs[path]]

\* an optional value: datasetId?: string
Undefined == << >>

Defined(value) == <<value>>

\* lines 43-55: the files after resolveDefaultDatasetId and what it returns
ResolvedDefaultDataset(fs, localDatasetIds) ==
    LET state == readState(fs)
    IN  IF ~state.valid
        THEN [files |-> fs,
              value |-> [datasetId |-> Undefined, clearedInvalidDefault |-> FALSE]]
        ELSE IF \E i \in 1..Len(localDatasetIds) : localDatasetIds[i] = state.defaultDatasetId
        THEN [files |-> fs,
              value |-> [datasetId |-> Defined(state.defaultDatasetId),
                         clearedInvalidDefault |-> FALSE]]
        ELSE [files |-> clearDefaultDatasetId(fs),
              value |-> [datasetId |-> Undefined, clearedInvalidDefault |-> TRUE]]

LocalDatasetIdLists ==
    { << >>, <<OwnerDataset>>, <<OtherDataset>>, <<OwnerDataset, OtherDataset>> }

InitSession ==
    /\ NotExecuting
    /\ \/ files = NoFiles
       \/ \E payload \in SessionPayloads : files = [path \in {SessionStatePath} |-> payload]
    /\ today = 1
    /\ returned = NoCall
    /\ curatedBefore = [scope \in Scopes |-> NotCurated]
    /\ saved = {}
    /\ served = 0
    /\ saver = [p \in Invocations |-> SaverIdle]

resolveDefaultDatasetId(localDatasetIds) ==
    LET resolved == ResolvedDefaultDataset(files, localDatasetIds)
    IN  /\ files' = resolved.files
        /\ returned' = [NoCall EXCEPT !.op = "resolveDefaultDatasetId",
                                      !.arg = localDatasetIds,
                                      !.value = resolved.value,
                                      !.changed = (files' # files)]
        /\ UNCHANGED <<today, curatedBefore, saved, served, saver, executing>>

\* lines 57-70: the state is written, or an Error is thrown for an empty id
setDefaultDatasetId(datasetId) ==
    LET normalized == Trim(datasetId)
    IN  /\ files' = IF normalized = << >> THEN files
                    ELSE writeText(files, SessionStatePath,
                                   JsonObject(JsonNumber(1), JsonString(normalized),
                                              JsonString(UpdatedAt)))
        /\ returned' = [NoCall EXCEPT !.op = "setDefaultDatasetId",
                                      !.arg = datasetId,
                                      !.value = (normalized # << >>),
                                      !.changed = (files' # files)]
        /\ UNCHANGED <<today, curatedBefore, saved, served, saver, executing>>

NextSession ==
    \/ \E localDatasetIds \in LocalDatasetIdLists : resolveDefaultDatasetId(localDatasetIds)
    \/ \E datasetId \in {OwnerDataset, OtherDataset, PaddedOwnerDataset, <<" ">>} :
          setDefaultDatasetId(datasetId)

SpecSession == InitSession /\ [][NextSession]_vars

\* C24: a step of resolveDefaultDatasetId(localIds): with the persisted default
\* dataset in localIds it returns that dataset with clearedInvalidDefault=false
\* and leaves the session file as it is; with a persisted default that is not
\* in localIds it deletes the session file and returns (undefined, true); with
\* no valid state persisted it returns (undefined, false) and writes nothing.
C24_ResolveDefaultDataset ==
    [][returned'.op = "resolveDefaultDatasetId" =>
          LET state == readState(files)
              localIds == returned'.arg
              listed == \E i \in 1..Len(localIds) : localIds[i] = state.defaultDatasetId
          IN  /\ (state.valid /\ listed) =>
                    /\ returned'.value = [datasetId |-> Defined(state.defaultDatasetId),
                                          clearedInvalidDefault |-> FALSE]
                    /\ files' = files
              /\ (state.valid /\ ~listed) =>
                    /\ returned'.value = [datasetId |-> Undefined,
                                          clearedInvalidDefault |-> TRUE]
                    /\ SessionStatePath \notin DOMAIN files'
                    /\ readState(files') = NoState
              /\ ~state.valid =>
                    /\ returned'.value = [datasetId |-> Undefined,
                                          clearedInvalidDefault |-> FALSE]
                    /\ files' = files]_vars

\* the persisted default was not among the local datasets: it has been cleared
C24_Witness ==
    /\ returned.op = "resolveDefaultDatasetId"
    /\ returned.arg = <<OtherDataset>>
    /\ returned.value.clearedInvalidDefault
    /\ returned.changed
    /\ files = NoFiles

====
